---- MODULE Spec2Model ----
(***************************************************************************)
(* goflags: a flag registry with short/long aliases, usage rendering,     *)
(* default config synthesis and config merge (src/goflags.go).            *)
(*                                                                         *)
(* Go strings are sequences of one-character strings, so that formatting, *)
(* parsing, case folding and ordering are computed, not assumed.          *)
(***************************************************************************)
EXTENDS Integers, Sequences, FiniteSets, TLC

(* ---------------------------- bounds ---------------------------------- *)

\* registration calls per process
MaxFlags == 1

\* command-line arguments handed to flag.Parse
MaxArgs == 1

(* ---------------------------- strings --------------------------------- *)

EmptyStr == << >>
sA == <<"a">>
sB == <<"b">>
sUpA == <<"A">>
sV == <<"v">>
sVB == <<"v", "b">>
sTrue == <<"t", "r", "u", "e">>
sFalse == <<"f", "a", "l", "s", "e">>
sUsage == <<"U", "s", "e">>

\* byte value of the characters that occur in flag names (ordering only)
Ascii(c) ==
  CASE c = " " -> 32 [] c = "0" -> 48 [] c = "1" -> 49
    [] c = "A" -> 65 [] c = "U" -> 85
    [] c = "a" -> 97 [] c = "b" -> 98 [] c = "e" -> 101
    [] c = "s" -> 115 [] c = "v" -> 118
    [] OTHER -> 127

RECURSIVE StrLess(_, _)
\* a < b on Go strings (bytewise lexicographic), the order of flag.VisitAll
StrLess(a, b) ==
  IF b = << >> THEN FALSE
  ELSE IF a = << >> THEN TRUE
  ELSE IF Head(a) = Head(b) THEN StrLess(Tail(a), Tail(b))
  ELSE Ascii(Head(a)) < Ascii(Head(b))

LowerChar(c) ==
  CASE c = "A" -> "a" [] c = "B" -> "b" [] c = "E" -> "e" [] c = "F" -> "f"
    [] c = "L" -> "l" [] c = "R" -> "r" [] c = "S" -> "s" [] c = "T" -> "t"
    [] c = "U" -> "u" [] c = "V" -> "v"
    [] OTHER -> c

\* strings.ToLower
ToLower(s) == [i \in 1..Len(s) |-> LowerChar(s[i])]

\* strings.EqualFold
EqualFold(a, b) == ToLower(a) = ToLower(b)

RECURSIVE TrimLeft(_)
TrimLeft(s) == IF s # << >> /\ Head(s) = " " THEN TrimLeft(Tail(s)) ELSE s

\* isNotBlank: len(strings.TrimSpace(value)) != 0
isNotBlank(value) == Len(TrimLeft(value)) # 0

\* strconv.FormatBool
FormatBool(b) == IF b THEN sTrue ELSE sFalse

DigitChar(d) ==
  CASE d = 0 -> "0" [] d = 1 -> "1" [] d = 2 -> "2" [] d = 3 -> "3"
    [] d = 4 -> "4" [] d = 5 -> "5" [] d = 6 -> "6" [] d = 7 -> "7"
    [] d = 8 -> "8" [] d = 9 -> "9"

Digits == {"0", "1", "2", "3", "4", "5", "6", "7", "8", "9"}

DigitVal(c) == CHOOSE d \in 0..9 : DigitChar(d) = c

RECURSIVE UItoa(_)
UItoa(n) == IF n < 10 THEN <<DigitChar(n)>> ELSE UItoa(n \div 10) \o <<DigitChar(n % 10)>>

\* strconv.Itoa
Itoa(n) == IF n < 0 THEN <<"-">> \o UItoa(-n) ELSE UItoa(n)

RECURSIVE ParseUint(_, _, _)
\* digits of s in the given base, most significant first, onto acc
ParseUint(s, base, acc) ==
  IF s = << >> THEN acc ELSE ParseUint(Tail(s), base, acc * base + DigitVal(Head(s)))

\* strconv.ParseBool: [ok, v]
ParseBool(s) ==
  IF s \in {<<"1">>, <<"t">>, <<"T">>, <<"T", "R", "U", "E">>, sTrue, <<"T", "r", "u", "e">>}
    THEN [ok |-> TRUE, v |-> TRUE]
  ELSE IF s \in {<<"0">>, <<"f">>, <<"F">>, <<"F", "A", "L", "S", "E">>, sFalse,
                 <<"F", "a", "l", "s", "e">>}
    THEN [ok |-> TRUE, v |-> FALSE]
  ELSE [ok |-> FALSE, v |-> FALSE]

\* strconv.ParseInt(s, 0, 64) on signed decimal and 0-prefixed octal text: [ok, v]
ParseInt(s) ==
  LET neg == s # << >> /\ Head(s) = "-"
      body == IF s # << >> /\ Head(s) \in {"-", "+"} THEN Tail(s) ELSE s
      octal == Len(body) > 1 /\ Head(body) = "0"
      base == IF octal THEN 8 ELSE 10
      valid == body # << >> /\ \A i \in 1..Len(body) :
                 body[i] \in Digits /\ DigitVal(body[i]) < base
      mag == IF valid THEN ParseUint(body, base, 0) ELSE 0
  IN  [ok |-> valid, v |-> IF neg THEN -mag ELSE mag]

RECURSIVE JoinQuoted(_)
JoinQuoted(ss) ==
  IF ss = << >> THEN << >>
  ELSE <<"\"">> \o Head(ss) \o <<"\"">>
       \o (IF Len(ss) # 1 THEN <<",", " ">> ELSE << >>) \o JoinQuoted(Tail(ss))

\* StringSlice.createStringArrayDefaultValue: ["a", "b"]
createStringArrayDefaultValue(stringSlice) == <<"[">> \o JoinQuoted(stringSlice) \o <<"]">>

(* ------------------------- flag.Value holders ------------------------- *)

\* the variables a caller binds: *string, *bool, *int, *StringSlice
StringField(s) == [v |-> s, t |-> "string"]
BoolField(b) == [v |-> b, t |-> "bool"]
IntField(n) == [v |-> n, t |-> "int"]
SliceField(ss) == [v |-> ss, t |-> "StringSlice"]

\* StringSlice.Set appends the value to the slice
StringSliceSet(h, s) == [h EXCEPT !.v = Append(h.v, s)]

\* StringSlice.String renders the bracketed, quoted, comma-joined list
StringSliceString(h) == createStringArrayDefaultValue(h.v)

\* fl.Value.String() of the flag package's stringValue, boolValue, intValue
ValueString(h) ==
  CASE h.t = "string" -> h.v
    [] h.t = "bool" -> FormatBool(h.v)
    [] h.t = "int" -> Itoa(h.v)
    [] h.t = "StringSlice" -> StringSliceString(h)

\* fl.Value.Set(s): [h, ok]; boolValue and intValue store the parsed result
\* (the zero value when parsing fails) and report the error
ValueSet(h, s) ==
  CASE h.t = "string" -> [ok |-> TRUE, h |-> [h EXCEPT !.v = s]]
    [] h.t = "bool" -> [ok |-> ParseBool(s).ok, h |-> [h EXCEPT !.v = ParseBool(s).v]]
    [] h.t = "int" -> [ok |-> ParseInt(s).ok, h |-> [h EXCEPT !.v = ParseInt(s).v]]
    [] h.t = "StringSlice" -> [ok |-> TRUE, h |-> StringSliceSet(h, s)]

(* ------------------------------- YAML --------------------------------- *)

\* Go values a document decodes to (map[string]interface{} entries)
GoString(s) == [v |-> s, t |-> "string"]
GoBool(b) == [v |-> b, t |-> "bool"]
GoInt(n) == [v |-> n, t |-> "int"]
GoNil == [v |-> FALSE, t |-> "nil"]
GoList(vs) == [v |-> vs, t |-> "list"]

\* nodes of a YAML document: scalars (plain or quoted) and sequences of scalars
Plain(text) == [n |-> "scalar", text |-> text, quoted |-> FALSE]
Quoted(text) == [n |-> "scalar", text |-> text, quoted |-> TRUE]
SeqNode(items) == [n |-> "seq", items |-> items]

YamlTrue ==
  {<<"y">>, <<"Y">>, <<"y", "e", "s">>, <<"o", "n">>, sTrue, <<"T", "r", "u", "e">>,
   <<"T", "R", "U", "E">>}

YamlFalse ==
  {<<"n">>, <<"N">>, <<"n", "o">>, <<"o", "f", "f">>, sFalse, <<"F", "a", "l", "s", "e">>,
   <<"F", "A", "L", "S", "E">>}

YamlNull == {EmptyStr, <<"~">>, <<"n", "u", "l", "l">>}

YamlIndicators ==
  {"[", "]", "{", "}", "\"", "#", ",", "&", "!", "|", ">", "%", "@", " "}

\* yaml resolve of a plain scalar: bool, null, int, else string
ResolvePlain(text) ==
  IF text \in YamlTrue THEN GoBool(TRUE)
  ELSE IF text \in YamlFalse THEN GoBool(FALSE)
  ELSE IF text \in YamlNull THEN GoNil
  ELSE IF ParseInt(text).ok THEN GoInt(ParseInt(text).v)
  ELSE GoString(text)

\* the Go value of a scalar node
ResolveScalar(node) == IF node.quoted THEN GoString(node.text) ELSE ResolvePlain(node.text)

\* the Go value of a node
ResolveNode(node) ==
  IF node.n = "seq"
    THEN GoList([i \in 1..Len(node.items) |-> ResolveScalar(node.items[i])])
    ELSE ResolveScalar(node)

\* yaml.Marshal of a Go string: plain when the plain form reads back as that
\* string, quoted otherwise
MarshalString(s) ==
  IF s = EmptyStr \/ ResolvePlain(s).t # "string" \/ Head(s) \in YamlIndicators
     \/ s[Len(s)] = " "
    THEN Quoted(s) ELSE Plain(s)

\* yaml.Marshal of a []string
MarshalSlice(ss) == SeqNode([i \in 1..Len(ss) |-> MarshalString(ss[i])])

\* file contents
NoFile == [kind |-> "absent"]
Malformed == [kind |-> "malformed"]
\* a hand-written document; the two forms generateDefaultConfig writes, which
\* begin with its two header comment lines
YamlDoc(m) == [kind |-> "yaml", header |-> FALSE, data |-> m]
GeneratedYaml(m) == [kind |-> "yaml", header |-> TRUE, data |-> m]
CommentDoc(entries) == [kind |-> "comments", header |-> TRUE, entries |-> entries]

EmptyMap == [k \in {} |-> GoNil]

\* yaml.NewDecoder(file).Decode(&data): [ok, data]. A file holding only
\* comments has no document (io.EOF); malformed content fails to decode.
Decode(content) ==
  IF content.kind = "yaml"
    THEN [ok |-> TRUE, data |-> [k \in DOMAIN content.data |-> ResolveNode(content.data[k])]]
    ELSE [ok |-> FALSE, data |-> EmptyMap]

(* ------------------------------ state --------------------------------- *)

VARIABLES
  Marshal,    \* FlagSet.Marshal
  flagKeys,   \* FlagSet.flagKeys: [keys, values], values hold descriptor references
  heap,       \* the flagData records the references of flagKeys point to
  formal,     \* flag.CommandLine: name -> [Value (reference into fields), DefValue]
  actual,     \* flag.CommandLine: the names set by flag.Parse
  fields,     \* the caller's bound variables
  boot,       \* fields as the registrations left them
  aliased,    \* the <<short, long>> pairs registered by the XxxVarP operations
  config,     \* the content of the config file of Parse, ~/.config/<app>/config.yaml
  data,       \* readConfigFile: the decoded document of the last merge
  pc,         \* "registering", "ready", "parsed", "failed", "exited", "panicked", "redefined"
  op,         \* the last operation and the path it was given
  err,        \* the error the last operation returned
  mergeErr,   \* the error of the last readConfigFile
  cli,        \* fields as flag.Parse left them
  pre,        \* fields when the last readConfigFile began
  out         \* what usageFunc printed: one entry per line

vars ==
  <<Marshal, flagKeys, heap, formal, actual, fields, boot, aliased, config, data, pc, op, err,
    mergeErr, cli, pre, out>>

(* ------------------------------ inputs --------------------------------- *)

\* the long names of one-name registrations, the (short, long) names of two-name ones
LongNames == {EmptyStr, sA}
AliasNames == {<<sV, sVB>>, <<EmptyStr, EmptyStr>>}

StringDefaults == {sA}
BoolDefaults == {FALSE}
IntDefaults == {0}
SliceDefaults == {<< >>, <<sA>>}

\* values a command line gives a flag of each type
ArgValues(t) ==
  CASE t = "string" -> {sA, sUpA, sB}
    [] t = "bool" -> {sTrue, sFalse}
    [] t = "int" -> {<<"0">>, <<"1">>}
    [] t = "StringSlice" -> {sB}

\* values of a hand-written document
DocNodes == {Plain(sB), Plain(sTrue), Plain(sFalse), Plain(<<"1">>), SeqNode(<<Plain(sA)>>)}
DocKeys == {sV, sVB}

UserDocs == UNION {[ks -> DocNodes] : ks \in SUBSET DocKeys}
UserFiles == {YamlDoc(m) : m \in UserDocs} \cup {Malformed, NoFile}

(* ------------------------- InsertionOrderedMap ------------------------- *)

\* newInsertionOrderedMap
newInsertionOrderedMap == [keys |-> << >>, values |-> [k \in {} |-> 0]]

\* InsertionOrderedMap.Set: insert or overwrite; a new key joins the order
MapSet(m, key, ref) ==
  [keys |-> IF key \in DOMAIN m.values THEN m.keys ELSE Append(m.keys, key),
   values |-> [k \in DOMAIN m.values \cup {key} |-> IF k = key THEN ref ELSE m.values[k]]]

\* InsertionOrderedMap.forEach: the (key, reference) pairs in insertion order
forEach(m) == [i \in 1..Len(m.keys) |-> [key |-> m.keys[i], ref |-> m.values[m.keys[i]]]]

(* ---------------------------- registration ----------------------------- *)

\* flagData.defaultValue: a string, or the bound flag.Value itself (VarP)
DefaultString(s) == [s |-> s, t |-> "string"]
DefaultValueRef(ref) == [t |-> "flag.Value", ref |-> ref]

\* flag.Var / flag.StringVar / ...: bind name to the variable, recording the
\* default's text; the flag package panics on a name it already has
FlagDefined(fm, name) == name \in DOMAIN fm

FlagVar(fm, name, ref, fs) ==
  [n \in DOMAIN fm \cup {name} |->
     IF n = name THEN [Value |-> ref, DefValue |-> ValueString(fs[ref])] ELSE fm[n]]

RegFrame ==
  /\ UNCHANGED <<Marshal, actual, config, data, err, mergeErr, out>>
  /\ cli' = fields'
  /\ pre' = fields'
  /\ boot' = fields'

\* the shared shape of the XxxVar registrations (one name)
Register(name, field, long, usage, defaultValue) ==
  LET ref == Len(fields) + 1
      fs == Append(fields, field)
  IN  /\ pc = "registering"
      /\ Len(fields) < MaxFlags
      /\ fields' = fs
      /\ op' = <<name, long>>
      /\ RegFrame
      /\ IF FlagDefined(formal, long)
           THEN /\ pc' = "redefined"
                /\ UNCHANGED <<formal, heap, flagKeys, aliased>>
           ELSE /\ pc' = "registering"
                /\ UNCHANGED aliased
                /\ formal' = FlagVar(formal, long, ref, fs)
                /\ heap' = Append(heap, [long |-> long, usage |-> usage,
                                         defaultValue |-> defaultValue,
                                         short |-> EmptyStr])
                /\ flagKeys' = MapSet(flagKeys, long, Len(heap) + 1)

\* RegisterP with the long name bound to a copy of the variable
RegisterP_copy(name, field, long, short, usage, defaultValue) ==
  LET ref == Len(fields) + 1
      fs == Append(Append(fields, field), field)
      fm1 == FlagVar(formal, short, ref, fs)
      d == Len(heap) + 1
  IN  /\ pc = "registering"
      /\ Len(fields) < MaxFlags
      /\ fields' = fs
      /\ op' = <<name, long>>
      /\ RegFrame
      /\ IF FlagDefined(formal, short) \/ FlagDefined(fm1, long)
           THEN /\ pc' = "redefined"
                /\ UNCHANGED <<formal, heap, flagKeys, aliased>>
           ELSE /\ pc' = "registering"
                /\ aliased' = aliased \cup {<<short, long>>}
                /\ formal' = FlagVar(fm1, long, ref + 1, fs)
                /\ heap' = Append(heap, [long |-> long, usage |-> usage,
                                         defaultValue |-> defaultValue,
                                         short |-> short])
                /\ flagKeys' = MapSet(MapSet(flagKeys, short, d), long, d)

\* the shared shape of the XxxVarP registrations (short and long name): both
\* names are bound to the same variable and to the same flagData
RegisterP(name, field, long, short, usage, defaultValue) ==
  LET ref == Len(fields) + 1
      fs == Append(fields, field)
      fm1 == FlagVar(formal, short, ref, fs)
      d == Len(heap) + 1
  IN  /\ pc = "registering"
      /\ Len(fields) < MaxFlags
      /\ fields' = fs
      /\ op' = <<name, long>>
      /\ RegFrame
      /\ IF FlagDefined(formal, short)
           THEN /\ pc' = "redefined"
                /\ UNCHANGED <<formal, heap, flagKeys, aliased>>
           ELSE IF FlagDefined(fm1, long)
           THEN /\ pc' = "redefined"
                /\ formal' = fm1
                /\ UNCHANGED <<heap, flagKeys, aliased>>
           ELSE /\ pc' = "registering"
                /\ aliased' = aliased \cup {<<short, long>>}
                /\ formal' = FlagVar(fm1, long, ref, fs)
                /\ heap' = Append(heap, [long |-> long, usage |-> usage,
                                         defaultValue |-> defaultValue,
                                         short |-> short])
                /\ flagKeys' = MapSet(MapSet(flagKeys, short, d), long, d)

RECURSIVE SetAll(_, _)
\* for _, item := range defaultValue { _ = field.Set(item) }
SetAll(h, items) == IF items = << >> THEN h ELSE SetAll(StringSliceSet(h, Head(items)), Tail(items))

StringVarP ==
  \E names \in AliasNames, defaultValue \in StringDefaults :
    RegisterP("StringVarP", StringField(defaultValue), names[2], names[1], sUsage,
              DefaultString(defaultValue))

StringVar ==
  \E long \in LongNames, defaultValue \in StringDefaults :
    Register("StringVar", StringField(defaultValue), long, sUsage, DefaultString(defaultValue))

BoolVarP ==
  \E names \in AliasNames, defaultValue \in BoolDefaults :
    RegisterP("BoolVarP", BoolField(defaultValue), names[2], names[1], sUsage,
              DefaultString(FormatBool(defaultValue)))

BoolVar ==
  \E long \in LongNames, defaultValue \in BoolDefaults :
    Register("BoolVar", BoolField(defaultValue), long, sUsage,
             DefaultString(FormatBool(defaultValue)))

IntVarP ==
  \E names \in AliasNames, defaultValue \in IntDefaults :
    RegisterP("IntVarP", IntField(defaultValue), names[2], names[1], sUsage,
              DefaultString(Itoa(defaultValue)))

IntVar ==
  \E long \in LongNames, defaultValue \in IntDefaults :
    Register("IntVar", IntField(defaultValue), long, sUsage, DefaultString(Itoa(defaultValue)))

StringSliceVarP ==
  \E names \in AliasNames, defaultValue \in SliceDefaults :
    LET field == SetAll(SliceField(<< >>), defaultValue)
    IN  RegisterP("StringSliceVarP", field, names[2], names[1], sUsage,
                  DefaultString(createStringArrayDefaultValue(field.v)))

StringSliceVar ==
  \E long \in LongNames, defaultValue \in SliceDefaults :
    LET field == SetAll(SliceField(<< >>), defaultValue)
    IN  Register("StringSliceVar", field, long, sUsage,
                 DefaultString(createStringArrayDefaultValue(field.v)))

\* VarP with a *StringSlice as the flag.Value
VarP ==
  \E names \in AliasNames :
    RegisterP("VarP", SliceField(<< >>), names[2], names[1], sUsage,
              DefaultValueRef(Len(fields) + 1))

(* ----------------------- default config synthesis ---------------------- *)

\* flagData.Hash: structhash over the content of the record (usage, short,
\* long, defaultValue); a flag.Value default is hashed through the pointer
Hash(d, fs) ==
  <<d.usage, d.short, d.long,
    IF d.defaultValue.t = "string" THEN d.defaultValue.s ELSE fs[d.defaultValue.ref].v>>

\* yaml.Marshal of one flagsToMarshall value
MarshalDefault(dv, fs) ==
  IF dv.t = "string" THEN MarshalString(dv.s) ELSE MarshalSlice(fs[dv.ref].v)

\* the text after "#long: ": the string, or dv.String() of a flag.Value
DefaultText(dv, fs) == IF dv.t = "string" THEN dv.s ELSE ValueString(fs[dv.ref])

RECURSIVE CommentEntries(_, _, _, _)
\* the second forEach of generateDefaultConfig: one commented entry per hash
CommentEntries(entries, hashes, hp, fs) ==
  IF entries = << >> THEN << >>
  ELSE LET d == hp[Head(entries).ref]
           dataHash == Hash(d, fs)
       IN  IF dataHash \in hashes
             THEN CommentEntries(Tail(entries), hashes, hp, fs)
             ELSE <<[value |-> DefaultText(d.defaultValue, fs), long |-> d.long,
                     usage |-> ToLower(d.usage)]>>
                  \o CommentEntries(Tail(entries), hashes \cup {dataHash}, hp, fs)

\* generateDefaultConfig: with Marshal, the YAML of key -> defaultValue for
\* every key of flagKeys (these values always marshal); else the commented form
generateDefaultConfig(marshal, fk, hp, fs) ==
  IF marshal
    THEN GeneratedYaml([key \in DOMAIN fk.values |->
                          MarshalDefault(hp[fk.values[key]].defaultValue, fs)])
    ELSE CommentDoc(CommentEntries(forEach(fk), {}, hp, fs))

(* ------------------------------ merging -------------------------------- *)

RECURSIVE SortedNames(_)
\* the order of flag.CommandLine.VisitAll: lexicographic by name
SortedNames(S) ==
  IF S = {} THEN << >>
  ELSE LET m == CHOOSE x \in S : \A y \in S \ {x} : StrLess(x, y)
       IN  <<m>> \o SortedNames(S \ {m})

RECURSIVE SetStrings(_, _)
\* case []interface{}: Set every element that is a string
SetStrings(h, items) ==
  IF items = << >> THEN h
  ELSE SetStrings(IF Head(items).t = "string" THEN ValueSet(h, Head(items).v).h ELSE h,
                  Tail(items))

\* the type switch of readConfigFile on one document value
ApplyItem(h, item) ==
  CASE item.t = "string" -> ValueSet(h, item.v).h
    [] item.t = "bool" -> ValueSet(h, FormatBool(item.v)).h
    [] item.t = "int" -> ValueSet(h, Itoa(item.v)).h
    [] item.t = "list" -> SetStrings(h, item.v)
    [] OTHER -> h

\* the condition under which readConfigFile applies the document to a flag
ShouldApply(fl, value, ok) == EqualFold(fl.DefValue, value) /\ ok

RECURSIVE VisitAll(_, _, _, _)
\* the VisitAll callback of readConfigFile over the names in order
VisitAll(names, fm, doc, fs) ==
  IF names = << >> THEN fs
  ELSE LET fl == fm[Head(names)]
           ok == Head(names) \in DOMAIN doc
           value == ValueString(fs[fl.Value])
       IN  VisitAll(Tail(names), fm, doc,
                    IF ShouldApply(fl, value, ok)
                      THEN [fs EXCEPT ![fl.Value] = ApplyItem(@, doc[Head(names)])]
                      ELSE fs)

\* readConfigFile: [err, data, fields]
readConfigFile(content, fm, fs) ==
  IF content = NoFile THEN [data |-> EmptyMap, fields |-> fs, err |-> "could not open config file"]
  ELSE IF ~Decode(content).ok
    THEN [data |-> EmptyMap, fields |-> fs, err |-> "could not unmarshal config file"]
  ELSE [data |-> Decode(content).data,
        fields |-> VisitAll(SortedNames(DOMAIN fm), fm, Decode(content).data, fs),
        err |-> "nil"]

\* MergeConfigFile(file)
MergeConfigFile ==
  \E path \in {"config", "missing"} :
    LET r == readConfigFile(IF path = "config" THEN config ELSE NoFile, formal, fields)
    IN  /\ pc = "parsed"
        /\ fields' = r.fields
        /\ data' = r.data
        /\ err' = r.err
        /\ mergeErr' = r.err
        /\ pre' = fields
        /\ op' = <<"MergeConfigFile", path>>
        /\ UNCHANGED <<Marshal, flagKeys, heap, formal, actual, boot, aliased, config, pc, cli,
                       out>>

(* ------------------------------- Parse --------------------------------- *)

\* one command-line occurrence: -name=val
Args ==
  LET one == {[name |-> n, val |-> v] : n \in DOMAIN formal, v \in {sA, sUpA, sB, sTrue, sFalse, <<"0">>, <<"1">>}}
      fit == {a \in one : a.val \in ArgValues(fields[formal[a.name].Value].t)}
  IN  UNION {[1..n -> fit] : n \in 0..MaxArgs}

RECURSIVE FlagParse(_, _, _)
\* flag.Parse: Set every flag that occurs, in order
FlagParse(args, fm, fs) ==
  IF args = << >> THEN fs
  ELSE FlagParse(Tail(args), fm,
                 [fs EXCEPT ![fm[Head(args).name].Value] = ValueSet(@, Head(args).val).h])

\* a Parse that takes every config file for absent
IsNotExist_always(content) == TRUE

\* os.Stat(config) reports os.IsNotExist
IsNotExist(content) == content = NoFile

\* what Parse returns when it merges the existing config file
ParseMergeResult(e) == "nil"

Parse ==
  \E args \in Args, io \in {"ok", "no home", "not written"} :
    LET fs == FlagParse(args, formal, fields)
        r == readConfigFile(config, formal, fs)
    IN  /\ pc \in {"registering", "ready"}
        /\ io = "not written" => config = NoFile
        /\ actual' = {args[i].name : i \in 1..Len(args)}
        /\ cli' = fs
        /\ pre' = fs
        /\ op' = <<"Parse", "config">>
        /\ UNCHANGED <<Marshal, flagKeys, heap, formal, boot, aliased, out>>
        /\ IF io = "no home"
             THEN \* os.UserHomeDir failed
                  /\ fields' = fs
                  /\ err' = "home"
                  /\ pc' = "failed"
                  /\ UNCHANGED <<config, data, mergeErr>>
           ELSE IF IsNotExist(config)
             THEN \* os.IsNotExist: write the default config, no merge
                  /\ fields' = fs
                  /\ UNCHANGED <<data, mergeErr>>
                  /\ IF io = "ok"
                       THEN /\ config' = generateDefaultConfig(Marshal, flagKeys, heap, fs)
                            /\ err' = "nil"
                            /\ pc' = "parsed"
                       ELSE /\ UNCHANGED config
                            /\ err' = "write"
                            /\ pc' = "failed"
             ELSE \* merge the existing file; the result of the merge is dropped
                  /\ fields' = r.fields
                  /\ data' = r.data
                  /\ mergeErr' = r.err
                  /\ err' = ParseMergeResult(r.err)
                  /\ pc' = "parsed"
                  /\ UNCHANGED config

(* ------------------------------- usage --------------------------------- *)

\* createUsageFlagNames without the check for an empty list of names
createUsageFlagNames_silent(d) ==
  LET validFlags == (IF isNotBlank(d.short) THEN <<<<"-">> \o d.short>> ELSE << >>)
                    \o (IF isNotBlank(d.long) THEN <<<<"-">> \o d.long>> ELSE << >>)
  IN  [panic |-> FALSE, flagNames |-> validFlags]

\* createUsageFlagNames: the "-name" of every name that is not blank; panics
\* ("CLI arguments cannot be empty.") when there is none
createUsageFlagNames(d) ==
  LET validFlags == (IF isNotBlank(d.short) THEN <<<<"-">> \o d.short>> ELSE << >>)
                    \o (IF isNotBlank(d.long) THEN <<<<"-">> \o d.long>> ELSE << >>)
  IN  [panic |-> Len(validFlags) = 0, flagNames |-> validFlags]

\* reflect.New(valueType.Elem()): the zero value of the bound variable's type
ZeroValue(h) ==
  CASE h.t = "string" -> StringField(EmptyStr)
    [] h.t = "bool" -> BoolField(FALSE)
    [] h.t = "int" -> IntField(0)
    [] h.t = "StringSlice" -> SliceField(<< >>)

\* isZeroValue(f, value)
isZeroValue(h, value) == value = ValueString(ZeroValue(h))

\* createUsageDefaultValue: " (default ...)" unless DefValue is the zero value
createUsageDefaultValue(d, fl, fs) ==
  IF ~isZeroValue(fs[fl.Value], fl.DefValue)
    THEN [text |-> DefaultText(d.defaultValue, fs), quoted |-> fs[fl.Value].t = "string",
          shown |-> TRUE]
    ELSE [text |-> EmptyStr, quoted |-> FALSE, shown |-> FALSE]

RECURSIVE UsageLines(_, _, _, _, _)
\* the forEach of usageFunc: one line per hash, until createUsageString panics
UsageLines(entries, hashes, hp, fm, fs) ==
  IF entries = << >> THEN [panic |-> FALSE, lines |-> << >>]
  ELSE LET d == hp[Head(entries).ref]
           currentFlag == fm[Head(entries).key]
           dataHash == Hash(d, fs)
           names == createUsageFlagNames(d)
           rest == UsageLines(Tail(entries), hashes \cup {dataHash}, hp, fm, fs)
       IN  IF dataHash \in hashes THEN UsageLines(Tail(entries), hashes, hp, fm, fs)
           ELSE IF names.panic THEN [panic |-> TRUE, lines |-> << >>]
           ELSE [panic |-> rest.panic,
                 lines |-> <<[usage |-> d.usage, flagNames |-> names.flagNames,
                              default |-> createUsageDefaultValue(d, currentFlag, fs)]>>
                           \o rest.lines]

\* usageFunc, as flag.Parse calls it for -h before the process exits
usageFunc ==
  LET u == UsageLines(forEach(flagKeys), {}, heap, formal, fields)
  IN  /\ pc \in {"registering", "ready"}
      /\ out' = u.lines
      /\ pc' = IF u.panic THEN "panicked" ELSE "exited"
      /\ op' = <<"usageFunc", "">>
      /\ UNCHANGED <<Marshal, flagKeys, heap, formal, actual, fields, boot, aliased, config,
                     data, err, mergeErr, cli, pre>>

(* ----------------------------- processes ------------------------------- *)

\* the program is started again: the same registrations, the same files
NewRun ==
  /\ pc \in {"parsed", "failed", "exited", "panicked"}
  /\ pc' = "ready"
  /\ fields' = boot
  /\ cli' = boot
  /\ pre' = boot
  /\ actual' = {}
  /\ data' = EmptyMap
  /\ err' = "nil"
  /\ mergeErr' = "none"
  /\ out' = << >>
  /\ op' = <<"NewFlagSet", "">>
  /\ UNCHANGED <<Marshal, flagKeys, heap, formal, boot, aliased, config>>

\* NewFlagSet in a fresh process, on a file system a user may have prepared.
\* Marshal is read by generateDefaultConfig alone, which runs only while the
\* config file is absent, so it is varied only there.
Init ==
  /\ config \in UserFiles
  /\ Marshal \in IF config = NoFile THEN BOOLEAN ELSE {FALSE}
  /\ flagKeys = newInsertionOrderedMap
  /\ heap = << >>
  /\ formal = [k \in {} |-> 0]
  /\ actual = {}
  /\ fields = << >>
  /\ boot = << >>
  /\ aliased = {}
  /\ data = EmptyMap
  /\ pc = "registering"
  /\ op = <<"NewFlagSet", "">>
  /\ err = "nil"
  /\ mergeErr = "none"
  /\ cli = << >>
  /\ pre = << >>
  /\ out = << >>

Next ==
  \/ StringVarP
  \/ StringVar
  \/ BoolVarP
  \/ BoolVar
  \/ IntVarP
  \/ IntVar
  \/ StringSliceVarP
  \/ StringSliceVar
  \/ VarP
  \/ Parse
  \/ MergeConfigFile
  \/ usageFunc
  \/ NewRun

Spec == Init /\ [][Next]_vars

(* ------------------------------ properties ----------------------------- *)

\* the bound variable of a registered name, the names bound to a variable
RefOf(n) == formal[n].Value
NamesOf(ref) == {n \in DOMAIN formal : formal[n].Value = ref}

\* the variables some command-line occurrence set
CliRefs == {RefOf(n) : n \in actual}

\* the document value that states the value of a bound variable
GoValueOf(h) ==
  CASE h.t = "string" -> GoString(h.v)
    [] h.t = "bool" -> GoBool(h.v)
    [] h.t = "int" -> GoInt(h.v)
    [] h.t = "StringSlice" -> GoList([i \in 1..Len(h.v) |-> GoString(h.v[i])])

\* equality of two document values
GoEq(a, b) ==
  /\ a.t = b.t
  /\ IF a.t = "list"
       THEN /\ Len(a.v) = Len(b.v)
            /\ \A i \in 1..Len(a.v) : a.v[i].t = b.v[i].t /\ a.v[i].v = b.v[i].v
       ELSE a.v = b.v

\* a document value of the type of the flag
SameType(item, h) ==
  \/ item.t = "string" /\ h.t = "string"
  \/ item.t = "bool" /\ h.t = "bool"
  \/ item.t = "int" /\ h.t = "int"
  \/ item.t = "list" /\ h.t = "StringSlice" /\ \A i \in 1..Len(item.v) : item.v[i].t = "string"

\* the last operation ran readConfigFile; it decoded a document and merged it
Attempted == op[1] \in {"Parse", "MergeConfigFile"} /\ mergeErr # "none"
Merged == Attempted /\ mergeErr = "nil"

\* a descriptor none of whose names is usable
Blank(d) == ~isNotBlank(d.short) /\ ~isNotBlank(d.long)

\* C1: a flag set on the command line to a value other than its default keeps
\* that value when a document holding a different value for it (under any of
\* its names) is merged.
C1_CliNonDefaultKept ==
  Merged =>
    \A ref \in CliRefs :
      (/\ cli[ref] # boot[ref]
       /\ \E n \in NamesOf(ref) \cap DOMAIN data : ~GoEq(data[n], GoValueOf(cli[ref])))
      => fields[ref] = cli[ref]

\* C2: every flag that occurred on the command line, whatever value it was
\* given, has the command-line value after Parse and the config merge.
C2_CommandLineWins == Merged => \A ref \in CliRefs : fields[ref] = cli[ref]

\* C3: a flag not set on the command line, still at its default, whose name is
\* a key of the document with a value of the flag's type, has the document's
\* value after the merge.
C3_UnsetFlagTakesDocument ==
  Merged =>
    \A n \in DOMAIN formal \cap DOMAIN data :
      (/\ RefOf(n) \notin CliRefs
       /\ pre[RefOf(n)] = boot[RefOf(n)]
       /\ SameType(data[n], pre[RefOf(n)]))
      => GoEq(GoValueOf(fields[RefOf(n)]), data[n])

\* C4: the two names of a flag registered with a short and a long name are
\* bound to the same variable and map to the same descriptor, so that after
\* any sets through either name both names read the same value.
C4_AliasesShareValue ==
  \A p \in aliased :
    /\ formal[p[1]].Value = formal[p[2]].Value
    /\ flagKeys.values[p[1]] = flagKeys.values[p[2]]
    /\ ValueString(fields[formal[p[1]].Value]) = ValueString(fields[formal[p[2]].Value])

\* C4 witness: a flag set through its short name on the command line and then
\* changed through its long name by a merge.
C4_Witness ==
  /\ Merged
  /\ \E p \in aliased :
       /\ p[1] \in actual
       /\ p[2] \in DOMAIN data
       /\ p[1] \notin DOMAIN data
       /\ fields[RefOf(p[1])] # cli[RefOf(p[1])]

\* the entries of a generated document
EntryCount(content) ==
  IF content.kind = "yaml" THEN Cardinality(DOMAIN content.data) ELSE Len(content.entries)

\* C5: usageFunc and generateDefaultConfig (with and without Marshal) each
\* emit exactly one entry per logical flag, whether it has one name or two.
C5_OneEntryPerFlag ==
  /\ (op[1] = "usageFunc" /\ pc = "exited") => Len(out) = Len(heap)
  /\ (config.kind \in {"yaml", "comments"} /\ config.header) => EntryCount(config) = Len(heap)

\* C6: with no command-line overrides, merging the document that
\* generateDefaultConfig wrote leaves every bound value at its default.
C6_RoundTrip ==
  (/\ Attempted
   /\ actual = {}
   /\ pre = boot
   /\ config = generateDefaultConfig(Marshal, flagKeys, heap, boot))
  => fields = boot

\* C7: when every value of the document equals the current value of the flag
\* of that name, the merge changes no bound value, and a second merge gives the
\* state of the first.
C7_MergeIdempotent ==
  (/\ Merged
   /\ \A n \in DOMAIN formal \cap DOMAIN data : GoEq(data[n], GoValueOf(pre[RefOf(n)])))
  => /\ fields = pre
     /\ readConfigFile(config, formal, fields).fields = fields

\* C8: an error of the merge (open or decode) is the error the operation
\* returns, for MergeConfigFile and for Parse when it merges the config file.
C8_MergeErrorReturned == (Attempted /\ mergeErr # "nil") => err = mergeErr

ParseStep == pc \in {"registering", "ready"} /\ op'[1] = "Parse"

\* C10: a Parse that finds no config file writes the default document and
\* merges nothing; a Parse that finds one merges it and leaves it as it is; no
\* step changes a config file that exists.
C10_ParseGeneratesOnce ==
  [][/\ config # NoFile => config' = config
     /\ ParseStep =>
          IF config = NoFile
            THEN /\ mergeErr' = "none"
                 /\ fields' = cli'
                 /\ config' = IF err' = "nil"
                                THEN generateDefaultConfig(Marshal, flagKeys, heap, cli')
                                ELSE NoFile
            ELSE err' = "nil" =>
                   /\ mergeErr' # "none"
                   /\ fields' = readConfigFile(config, formal, cli').fields]_vars

\* C10 witness: a later run of Parse has merged the document an earlier run
\* generated.
C10_Witness ==
  /\ op[1] = "Parse"
  /\ Merged
  /\ config.header
  /\ fields # cli

====
